---- MODULE Spec2Model ----
(***************************************************************************)
(* Backend-selection policy engine (HybridRouter) and its telemetry store  *)
(* (HybridMetrics) of the BA Copilot backend.                              *)
(*                                                                         *)
(* Money is counted in nano-dollars (1e-9 USD), so that the per-1000-token *)
(* prices of the COSTS table are integers per token.                       *)
(* An optional value that is None in the code is the string "None"; a      *)
(* client handle is modelled by whether it is configured (not None).       *)
(***************************************************************************)
EXTENDS Integers, Sequences, FiniteSets, TLC

VARIABLES
    \* HybridRouter fields (hybrid_router.py:109-114)
    cortex, mistral, claude, enable_cortex, enable_mistral,
    \* the QueryContext the caller passes to route() / execute()
    context,
    \* the call that returned last; for a router call: the decision of its
    \* route(), whether it logged the warning, the dict execute() returned
    \* and the adapters execute() invoked, each with whether it raised
    op, decision, warned, outcome, invoked,
    \* HybridMetrics fields (metrics.py:68-74)
    queries, max_history, _total_cost, _query_count, _success_count,
    \* the clock read by datetime.now(), and every metric ever appended, in
    \* append order (history)
    now, logged,
    \* the arguments and the return value of the last HybridMetrics call
    args, report,
    \* threads running log_query concurrently: position and locals of each,
    \* the identity of the list object self.queries refers to, and the
    \* contents of the list objects it referred to before (a thread can
    \* still hold one)
    pc, frame, listId, retired

routerVars == <<cortex, mistral, claude, enable_cortex, enable_mistral>>
callVars   == <<op, decision, warned, outcome, invoked>>
storeVars  == <<queries, max_history, _total_cost, _query_count, _success_count, now, logged>>
readVars   == <<args, report>>
threadVars == <<pc, frame, listId, retired>>
vars == <<routerVars, context, callVars, storeVars, readVars, threadVars>>

----------------------------------------------------------------------------
\* Bounds of the model

\* largest configured max_history
MaxHistory == 2
\* log_query calls explored in the telemetry specification
MaxCalls == 5
\* log_query calls explored next to the router in SpecShared
MaxRouterLogs == 1
\* threads calling log_query concurrently, and the calls they make in all
NumThreads == 2
MaxConcCalls == 3
\* log_query calls explored next to the read-only operations, and the
\* clock value after which no more time is let pass
MaxReadCalls == 3
MaxClock == 10
\* log_query calls explored before the recommendation engine
MaxAdvisoryCalls == 10
\* log_query calls explored on the store of MinSamples entries
MaxEvictingCalls == 11
\* log_query calls explored on the store longer than the recent window
MaxWindowCalls == 102

----------------------------------------------------------------------------
\* Enumerations and inputs

None == "None"

DataSensitivity == {"public", "internal", "confidential", "restricted"}

QueryComplexity == {"simple", "moderate", "complex"}

Backend == {"cortex", "mistral", "claude_haiku", "claude_sonnet", "claude_opus"}

ClaudeTiers == {"claude_haiku", "claude_sonnet", "claude_opus"}

\* data_source is a free string; only 'snowflake' is ever compared against
DataSources == {"snowflake", "postgres"}

\* estimated_tokens is a plain int, 0 by default
TokenEstimates == {0 - 500, 0, 1000}

QueryContext ==
    [data_source : DataSources,
     sensitivity : DataSensitivity,
     complexity : QueryComplexity,
     requires_iteration : BOOLEAN,
     estimated_tokens : TokenEstimates,
     user_preference : Backend \cup {None}]

\* latencies a dispatch can measure, in ms
Latencies == {120, 7000}

----------------------------------------------------------------------------
\* Cost model

\* (mutant) the table lacks a backend
COSTS_WithoutOpus ==
    [cortex |-> 3000, mistral |-> 1000, claude_haiku |-> 300,
     claude_sonnet |-> 3000]

\* COSTS, per 1000 tokens in USD = per token in nano-dollars
COSTS ==
    [cortex |-> 3000, mistral |-> 1000, claude_haiku |-> 300,
     claude_sonnet |-> 3000, claude_opus |-> 15000]

DefaultTokens == 1000

KeyError == "KeyError"

\* (mutant) a zero estimate is costed as zero tokens
EstimateCost_NoDefault(backend, tokens) == tokens * COSTS[backend]

\* _estimate_cost; self.COSTS[backend] raises KeyError for a backend the
\* table does not hold (see RoutingDecision)
_estimate_cost(backend, tokens) ==
    LET t == IF tokens = 0 THEN DefaultTokens ELSE tokens
    IN  t * COSTS[backend]

----------------------------------------------------------------------------
\* Policy engine

NoDecision == [pending |-> TRUE]

NoOutcome == [pending |-> TRUE]

\* the value of a call that returns nothing
NoReport == [returned |-> None]

Raised(e) == [raised |-> e]

IsDecision(d) == "backend" \in DOMAIN d

IsRaised(r) == "raised" \in DOMAIN r

\* the RoutingDecision constructor call; evaluating its arguments can raise
RoutingDecision(backend, reason, tokens, exposure) ==
    IF backend \notin DOMAIN COSTS
    THEN Raised(KeyError)
    ELSE [backend |-> backend, reason |-> reason,
          estimated_cost |-> _estimate_cost(backend, tokens),
          data_exposure |-> exposure]

_is_backend_available(backend) ==
    IF backend = "cortex" THEN enable_cortex
    ELSE IF backend = "mistral" THEN enable_mistral
    ELSE claude

\* (mutant) the sensitive-data check is missing
GetDataExposure_NoSensitiveCheck(backend, sensitivity) ==
    IF backend \in {"cortex", "mistral"} THEN "full"
    ELSE IF sensitivity = "internal" THEN "aggregated"
    ELSE "full"

_get_data_exposure(backend, sensitivity) ==
    IF backend \in {"cortex", "mistral"} THEN "full"
    ELSE IF sensitivity \in {"confidential", "restricted"} THEN "schema_only"
    ELSE IF sensitivity = "internal" THEN "aggregated"
    ELSE "full"

\* route(), lines 131-143: the honoured preference
PreferenceDecision(ctx) ==
    RoutingDecision(ctx.user_preference, "User preference", ctx.estimated_tokens,
                    _get_data_exposure(ctx.user_preference, ctx.sensitivity))

\* (mutant) the Snowflake + iteration rule is tried before the preference
HonoursPreference_AfterRule1(ctx) ==
    /\ ctx.user_preference # None
    /\ _is_backend_available(ctx.user_preference)
    /\ ~(ctx.data_source = "snowflake" /\ ctx.requires_iteration /\ enable_cortex)

\* (mutant) the preference is honoured without the availability test
HonoursPreference_Always(ctx) == ctx.user_preference # None

\* (mutant) a Claude tier is honoured without the availability test
HonoursPreference_ClaudeUntested(ctx) ==
    /\ ctx.user_preference # None
    /\ ctx.user_preference \in ClaudeTiers \/ _is_backend_available(ctx.user_preference)

HonoursPreference(ctx) ==
    ctx.user_preference # None /\ _is_backend_available(ctx.user_preference)

\* route(), lines 156-188: sensitive data
SensitiveDecision(ctx) ==
    IF ctx.requires_iteration /\ enable_mistral
    THEN RoutingDecision("mistral",
             "Sensitive data requiring iteration - only self-hosted is safe",
             ctx.estimated_tokens, "full")
    ELSE IF ctx.requires_iteration /\ enable_cortex /\ ctx.data_source = "snowflake"
    THEN RoutingDecision("cortex",
             "Sensitive Snowflake data with iteration - Cortex is safe",
             ctx.estimated_tokens, "full")
    ELSE RoutingDecision(
             IF ctx.complexity = "complex" THEN "claude_sonnet" ELSE "claude_haiku",
             "Sensitive data, no iteration - schema-only API call",
             ctx.estimated_tokens, "schema_only")

\* (mutant) the premium tier never gets the aggregated exposure
RuleDecision_OpusSchemaOnly(ctx) ==
    IF ctx.data_source = "snowflake" /\ ctx.requires_iteration /\ enable_cortex
    THEN RoutingDecision("cortex",
             "Snowflake data with iteration - Cortex allows safe full data access",
             ctx.estimated_tokens, "full")
    ELSE IF ctx.sensitivity \in {"confidential", "restricted"}
    THEN SensitiveDecision(ctx)
    ELSE IF ctx.complexity = "simple"
    THEN IF ctx.data_source = "snowflake" /\ enable_cortex
         THEN RoutingDecision("cortex",
                  "Simple query in Snowflake - native Cortex is efficient",
                  ctx.estimated_tokens, "full")
         ELSE RoutingDecision("claude_haiku",
                  "Simple query - Haiku is fastest and cheapest",
                  ctx.estimated_tokens, "schema_only")
    ELSE IF ctx.complexity = "complex"
    THEN IF ctx.data_source = "snowflake" /\ enable_cortex
         THEN RoutingDecision("cortex",
                  "Complex Snowflake analysis - Cortex with Claude for accuracy + data access",
                  ctx.estimated_tokens, "full")
         ELSE RoutingDecision("claude_opus",
                  "Complex analysis - Opus 4.5 for highest accuracy (95%+)",
                  ctx.estimated_tokens, "schema_only")
    ELSE RoutingDecision("claude_sonnet",
             "Default balanced option - good accuracy and cost",
             ctx.estimated_tokens, "schema_only")

\* (mutant) the sensitive-data rule is tried before the Snowflake +
\* iteration rule
RuleDecision_SensitiveFirst(ctx) ==
    IF ctx.sensitivity \in {"confidential", "restricted"}
    THEN SensitiveDecision(ctx)
    ELSE IF ctx.data_source = "snowflake" /\ ctx.requires_iteration /\ enable_cortex
    THEN RoutingDecision("cortex",
             "Snowflake data with iteration - Cortex allows safe full data access",
             ctx.estimated_tokens, "full")
    ELSE IF ctx.complexity = "simple"
    THEN IF ctx.data_source = "snowflake" /\ enable_cortex
         THEN RoutingDecision("cortex",
                  "Simple query in Snowflake - native Cortex is efficient",
                  ctx.estimated_tokens, "full")
         ELSE RoutingDecision("claude_haiku",
                  "Simple query - Haiku is fastest and cheapest",
                  ctx.estimated_tokens, "schema_only")
    ELSE IF ctx.complexity = "complex"
    THEN IF ctx.data_source = "snowflake" /\ enable_cortex
         THEN RoutingDecision("cortex",
                  "Complex Snowflake analysis - Cortex with Claude for accuracy + data access",
                  ctx.estimated_tokens, "full")
         ELSE RoutingDecision("claude_opus",
                  "Complex analysis - Opus 4.5 for highest accuracy (95%+)",
                  ctx.estimated_tokens,
                  IF ctx.requires_iteration THEN "aggregated" ELSE "schema_only")
    ELSE RoutingDecision("claude_sonnet",
             "Default balanced option - good accuracy and cost",
             ctx.estimated_tokens, "schema_only")

\* (mutant) the premium tier is given the full data
RuleDecision_OpusFull(ctx) ==
    IF ctx.data_source = "snowflake" /\ ctx.requires_iteration /\ enable_cortex
    THEN RoutingDecision("cortex",
             "Snowflake data with iteration - Cortex allows safe full data access",
             ctx.estimated_tokens, "full")
    ELSE IF ctx.sensitivity \in {"confidential", "restricted"}
    THEN SensitiveDecision(ctx)
    ELSE IF ctx.complexity = "simple"
    THEN IF ctx.data_source = "snowflake" /\ enable_cortex
         THEN RoutingDecision("cortex",
                  "Simple query in Snowflake - native Cortex is efficient",
                  ctx.estimated_tokens, "full")
         ELSE RoutingDecision("claude_haiku",
                  "Simple query - Haiku is fastest and cheapest",
                  ctx.estimated_tokens, "schema_only")
    ELSE IF ctx.complexity = "complex"
    THEN IF ctx.data_source = "snowflake" /\ enable_cortex
         THEN RoutingDecision("cortex",
                  "Complex Snowflake analysis - Cortex with Claude for accuracy + data access",
                  ctx.estimated_tokens, "full")
         ELSE RoutingDecision("claude_opus",
                  "Complex analysis - Opus 4.5 for highest accuracy (95%+)",
                  ctx.estimated_tokens,
                  "full")
    ELSE RoutingDecision("claude_sonnet",
             "Default balanced option - good accuracy and cost",
             ctx.estimated_tokens, "schema_only")

\* route(), lines 145-228: the rules after the preference
RuleDecision(ctx) ==
    IF ctx.data_source = "snowflake" /\ ctx.requires_iteration /\ enable_cortex
    THEN RoutingDecision("cortex",
             "Snowflake data with iteration - Cortex allows safe full data access",
             ctx.estimated_tokens, "full")
    ELSE IF ctx.sensitivity \in {"confidential", "restricted"}
    THEN SensitiveDecision(ctx)
    ELSE IF ctx.complexity = "simple"
    THEN IF ctx.data_source = "snowflake" /\ enable_cortex
         THEN RoutingDecision("cortex",
                  "Simple query in Snowflake - native Cortex is efficient",
                  ctx.estimated_tokens, "full")
         ELSE RoutingDecision("claude_haiku",
                  "Simple query - Haiku is fastest and cheapest",
                  ctx.estimated_tokens, "schema_only")
    ELSE IF ctx.complexity = "complex"
    THEN IF ctx.data_source = "snowflake" /\ enable_cortex
         THEN RoutingDecision("cortex",
                  "Complex Snowflake analysis - Cortex with Claude for accuracy + data access",
                  ctx.estimated_tokens, "full")
         ELSE RoutingDecision("claude_opus",
                  "Complex analysis - Opus 4.5 for highest accuracy (95%+)",
                  ctx.estimated_tokens,
                  IF ctx.requires_iteration THEN "aggregated" ELSE "schema_only")
    ELSE RoutingDecision("claude_sonnet",
             "Default balanced option - good accuracy and cost",
             ctx.estimated_tokens, "schema_only")

\* what route(ctx) returns
RouteResult(ctx) ==
    IF HonoursPreference(ctx) THEN PreferenceDecision(ctx) ELSE RuleDecision(ctx)

\* (mutant) the warning is logged for every sensitive query sent to the API
RouteWarns_AnySensitiveApi(ctx) ==
    /\ ~HonoursPreference(ctx)
    /\ ~(ctx.data_source = "snowflake" /\ ctx.requires_iteration /\ enable_cortex)
    /\ ctx.sensitivity \in {"confidential", "restricted"}
    /\ ~(ctx.requires_iteration /\ enable_mistral)

\* whether route(ctx) reaches logger.warning (lines 173-178)
RouteWarns(ctx) ==
    /\ ~HonoursPreference(ctx)
    /\ ~(ctx.data_source = "snowflake" /\ ctx.requires_iteration /\ enable_cortex)
    /\ ctx.sensitivity \in {"confidential", "restricted"}
    /\ ctx.requires_iteration
    /\ ~enable_mistral
    /\ ~(enable_cortex /\ ctx.data_source = "snowflake")

----------------------------------------------------------------------------
\* Telemetry store

\* what a caller passes to log_query; a question is its number of
\* characters
MetricInputs ==
    [question : {60},
     sensitivity : {"internal"},
     complexity : {"simple"},
     backend : {"claude_opus"},
     success : BOOLEAN,
     iterations : {1},
     latency_ms : {120},
     estimated_cost : {3000}]

\* QueryMetric(timestamp=datetime.now(), ...), lines 109-122
QueryMetric(timestamp, in) ==
    [timestamp |-> timestamp, question |-> in.question,
     sensitivity |-> in.sensitivity, complexity |-> in.complexity,
     backend |-> in.backend, success |-> in.success,
     iterations |-> in.iterations, latency_ms |-> in.latency_ms,
     estimated_cost |-> in.estimated_cost]

\* list[-n:] of Python
LastN(list, n) ==
    IF n = 0 \/ n >= Len(list) THEN list
    ELSE SubSeq(list, Len(list) - n + 1, Len(list))

\* (mutant) the slice keeps the oldest entries
Trim_KeepsOldest(list) ==
    IF Len(list) > max_history THEN SubSeq(list, 1, max_history) ELSE list

\* lines 130-132: trim history if needed
Trim(list) ==
    IF Len(list) > max_history THEN LastN(list, max_history) ELSE list

----------------------------------------------------------------------------
\* Read-only analytics over the store.  A quotient the code computes in
\* floating point is kept as the fraction [num, den].

Frac(n, d) == [num |-> n, den |-> d]

\* x / f and f * k for a fraction f
DivBy(x, f) == Frac(x * f.den, f.num)
Times(f, k) == Frac(f.num * k, f.den)

\* int(f): truncation toward zero
Int_(f) ==
    LET n == IF f.den < 0 THEN 0 - f.num ELSE f.num
        d == IF f.den < 0 THEN 0 - f.den ELSE f.den
    IN  IF n >= 0 THEN n \div d ELSE 0 - ((0 - n) \div d)

RECURSIVE SeqSum(_)
SeqSum(ints) ==
    IF ints = << >> THEN 0 ELSE Head(ints) + SeqSum(Tail(ints))

\* sum(q.<field> for q in list)
SumCost(list) == SeqSum([i \in 1 .. Len(list) |-> list[i].estimated_cost])
SumLatency(list) == SeqSum([i \in 1 .. Len(list) |-> list[i].latency_ms])
SumIterations(list) == SeqSum([i \in 1 .. Len(list) |-> list[i].iterations])

IsSuccess(q) == q.success

\* a grouped count: dict(defaultdict(int)) after the loop of lines 186-189
CountBy(list, field) ==
    [k \in {list[i][field] : i \in 1 .. Len(list)} |->
        Cardinality({i \in 1 .. Len(list) : list[i][field] = k})]

\* an absent (None) time bound; a datetime is always truthy
NoTime == 0

\* (mutant) the end of the period is not applied
FilterByTime_IgnoresEnd(list, start_time, end_time) ==
    IF start_time # NoTime
    THEN SelectSeq(list, LAMBDA q : q.timestamp >= start_time)
    ELSE list

\* lines 153-158: filter queries by time
FilterByTime(list, start_time, end_time) ==
    LET from == IF start_time # NoTime
                THEN SelectSeq(list, LAMBDA q : q.timestamp >= start_time)
                ELSE list
    IN  IF end_time # NoTime
        THEN SelectSeq(from, LAMBDA q : q.timestamp <= end_time)
        ELSE from

\* lines 160-201: the AggregatedMetrics of the filtered queries
AggregatedMetrics(filtered) ==
    IF filtered = << >>
    THEN [total_queries |-> 0, successful_queries |-> 0, failed_queries |-> 0,
          total_cost |-> 0, avg_latency_ms |-> Frac(0, 1),
          queries_by_backend |-> << >>, queries_by_complexity |-> << >>,
          queries_by_sensitivity |-> << >>, avg_iterations |-> Frac(0, 1)]
    ELSE LET total == Len(filtered)
             successful == Len(SelectSeq(filtered, IsSuccess))
         IN  [total_queries |-> total,
              successful_queries |-> successful,
              failed_queries |-> total - successful,
              total_cost |-> SumCost(filtered),
              avg_latency_ms |-> Frac(SumLatency(filtered), total),
              queries_by_backend |-> CountBy(filtered, "backend"),
              queries_by_complexity |-> CountBy(filtered, "complexity"),
              queries_by_sensitivity |-> CountBy(filtered, "sensitivity"),
              avg_iterations |-> Frac(SumIterations(filtered), total)]

\* the clock counts hundredths of a day: timedelta.total_seconds() / 86400
\* is ticks / TicksPerDay
TicksPerDay == 100

\* the most recent samples the forecast looks at
ForecastWindow == 1000

\* (mutant) every sample is looked at
Recent_WholeList(list, n) == list

\* self.queries[-n:] if len(self.queries) >= n else self.queries
Recent(list, n) == IF Len(list) >= n THEN LastN(list, n) ELSE list

\* lines 316-318: the span in days, one day if under a tenth of a day
TimeSpan(recent) ==
    LET ticks == recent[Len(recent)].timestamp - recent[1].timestamp
    IN  IF ticks * 10 < TicksPerDay THEN Frac(1, 1) ELSE Frac(ticks, TicksPerDay)

\* the dict a forecast with enough data returns, lines 320-333
Projection(recent, days) ==
    LET time_span == TimeSpan(recent)
        daily_queries == DivBy(Len(recent), time_span)
        daily_cost == DivBy(SumCost(recent), time_span)
    IN  [forecast_period_days |-> days,
         projected_queries |-> Int_(Times(daily_queries, days)),
         projected_cost |-> Times(daily_cost, days),
         daily_query_rate |-> daily_queries,
         daily_cost_rate |-> daily_cost,
         cost_by_backend |->
             [b \in {recent[i].backend : i \in 1 .. Len(recent)} |->
                 Times(DivBy(SumCost(SelectSeq(recent, LAMBDA q : q.backend = b)),
                             time_span), days)]]

\* (mutant) a single sample is enough for a projection
CostForecast_OneSample(list, days) ==
    IF list = << >> THEN [error |-> "No data for forecasting"]
    ELSE Projection(Recent(list, ForecastWindow), days)

\* get_cost_forecast(days), lines 307-333
CostForecast(list, days) ==
    IF list = << >> THEN [error |-> "No data for forecasting"]
    ELSE LET recent == Recent(list, ForecastWindow)
         IN  IF Len(recent) < 2
             THEN [error |-> "Insufficient data for forecasting"]
             ELSE Projection(recent, days)

\* characters of a question the export keeps before the "..." it appends
QuestionLimit == 50

\* lines 347-355: one JSON object of the export
JsonRecord(q) ==
    [timestamp |-> q.timestamp,
     question |-> IF q.question > QuestionLimit
                  THEN [chars |-> QuestionLimit, ellipsis |-> TRUE]
                  ELSE [chars |-> q.question, ellipsis |-> FALSE],
     backend |-> q.backend, success |-> q.success,
     iterations |-> q.iterations, latency_ms |-> q.latency_ms,
     cost |-> q.estimated_cost]

CsvHeader == "timestamp,backend,success,iterations,latency_ms,cost"

\* lines 362-363: one CSV line; the cost is printed with 6 decimals of a
\* dollar, so in micro-dollars (no modelled cost is half-way)
CsvLine(q) ==
    <<q.timestamp, q.backend, q.success, q.iterations, q.latency_ms,
      (q.estimated_cost + 500) \div 1000>>

\* (mutant) an unknown format is exported as json
Export_DefaultsToJson(list, format) ==
    IF format = "csv"
    THEN [csv |-> <<CsvHeader>> \o [i \in 1 .. Len(list) |-> CsvLine(list[i])]]
    ELSE [json |-> [i \in 1 .. Len(list) |-> JsonRecord(list[i])]]

\* export_metrics(format), lines 345-367: the string it returns, as the
\* list of its records or lines, or the ValueError it raises
Export(list, format) ==
    IF format = "json"
    THEN [json |-> [i \in 1 .. Len(list) |-> JsonRecord(list[i])]]
    ELSE IF format = "csv"
    THEN [csv |-> <<CsvHeader>> \o [i \in 1 .. Len(list) |-> CsvLine(list[i])]]
    ELSE Raised("ValueError")

\* samples below which no rule is evaluated
MinSamples == 10

\* samples the reliability and performance rules look at, and the latency
\* (ms) above which a sample is slow
RecentWindow == 100
SlowLatency == 5000

IsSimple(q) == q.complexity = "simple"

\* q.backend in ['claude_opus', 'claude_sonnet']
IsPremium(q) == q.backend \in {"claude_opus", "claude_sonnet"}

\* q.iterations > 1 and 'claude' in q.backend
IsIterativeApi(q) == q.iterations > 1 /\ q.backend \in ClaudeTiers

IsFailure(q) == ~q.success

IsSlow(q) == q.latency_ms > SlowLatency

\* the keys of a dict filled in a loop over list, and the place of a key in
\* insertion order
BackendsOf(list) == {list[i].backend : i \in 1 .. Len(list)}
FirstIndex(list, b) ==
    CHOOSE i \in 1 .. Len(list) :
        /\ list[i].backend = b
        /\ \A j \in 1 .. i - 1 : list[j].backend # b

OfBackend(list, b) == SelectSeq(list, LAMBDA q : q.backend = b)

\* lines 215-228: simple queries on expensive backends; x > n * 0.3 is
\* 10 x > 3 n, and the savings are 0.8 of the summed cost
CostOptimization(list) ==
    LET simple_queries == SelectSeq(list, IsSimple)
        expensive_simple == SelectSeq(simple_queries, IsPremium)
    IN  IF /\ simple_queries # << >>
           /\ 10 * Len(expensive_simple) > 3 * Len(simple_queries)
        THEN <<[type |-> "cost_optimization",
                message |-> [count |-> Len(expensive_simple),
                             share |-> Frac(Len(expensive_simple), Len(simple_queries))],
                impact |-> Frac(8 * SumCost(expensive_simple), 10)]>>
        ELSE << >>

\* lines 230-241: iteration-heavy queries on the external API
DataPrivacy(list) ==
    LET iterative_api == SelectSeq(list, IsIterativeApi)
    IN  IF iterative_api # << >>
        THEN <<[type |-> "data_privacy",
                message |-> [count |-> Len(iterative_api)],
                impact |-> "Better accuracy + data privacy"]>>
        ELSE << >>

\* lines 243-253: failure rate of the recent samples above 0.1
Reliability(recent) ==
    LET failures == Len(SelectSeq(recent, IsFailure))
    IN  IF 10 * failures > Len(recent)
        THEN <<[type |-> "reliability",
                message |-> [failure_rate |-> Frac(failures, Len(recent)),
                             last |-> Len(recent)],
                impact |-> "Improved reliability"]>>
        ELSE << >>

\* line 257: avg_latency > 5000
IsSlowOnAverage(recent) == SumLatency(recent) > SlowLatency * Len(recent)

\* lines 258-263: max(slow_backends.items(), key=average); the first of the
\* largest in insertion order
Slowest(recent) ==
    LET slow == SelectSeq(recent, IsSlow)
        Above(b, c) ==
            SumLatency(OfBackend(slow, b)) * Len(OfBackend(slow, c))
                > SumLatency(OfBackend(slow, c)) * Len(OfBackend(slow, b))
    IN  CHOOSE b \in BackendsOf(slow) :
            \A c \in BackendsOf(slow) \ {b} :
                \/ Above(b, c)
                \/ ~Above(c, b) /\ FirstIndex(slow, b) < FirstIndex(slow, c)

\* lines 255-270
Performance(recent) ==
    IF IsSlowOnAverage(recent)
    THEN LET slowest == Slowest(recent)
             offending == OfBackend(SelectSeq(recent, IsSlow), slowest)
         IN  <<[type |-> "performance",
                message |-> [avg_latency |-> Frac(SumLatency(recent), Len(recent)),
                             slowest |-> slowest,
                             avg |-> Frac(SumLatency(offending), Len(offending))],
                impact |-> "Better user experience"]>>
    ELSE << >>

\* line 263 raises ValueError when no sample is slow: max() of nothing
PerformanceFaults(recent) ==
    IsSlowOnAverage(recent) /\ SelectSeq(recent, IsSlow) = << >>

\* line 278: max(cost_by_backend.items(), key=cost)
TopCostBackend(list) ==
    CHOOSE b \in BackendsOf(list) :
        \A c \in BackendsOf(list) \ {b} :
            \/ SumCost(OfBackend(list, b)) > SumCost(OfBackend(list, c))
            \/ /\ SumCost(OfBackend(list, b)) = SumCost(OfBackend(list, c))
               /\ FirstIndex(list, b) < FirstIndex(list, c)

\* lines 272-286: one backend above 0.7 of self._total_cost
CostDistribution(list, total_cost) ==
    IF total_cost > 0
    THEN LET top == TopCostBackend(list)
             cost == SumCost(OfBackend(list, top))
         IN  IF 10 * cost > 7 * total_cost
             THEN <<[type |-> "cost_distribution",
                     message |-> [backend |-> top,
                                  share |-> Frac(cost, total_cost),
                                  cost |-> cost],
                     impact |-> "Cost optimization opportunity"]>>
             ELSE << >>
    ELSE << >>

NeedMoreData ==
    [type |-> "info", message |-> "Need more data for recommendations",
     impact |-> "N/A"]

NoOpportunities ==
    [type |-> "info",
     message |-> "No optimization opportunities identified. Current routing is efficient.",
     impact |-> "N/A"]

\* (mutant) the rules are alternatives: the first that fires is the only one
RuleAdvisories_FirstOnly(list, total_cost) ==
    LET recent == Recent(list, RecentWindow)
        recommendations ==
            CostOptimization(list) \o DataPrivacy(list)
                \o Reliability(recent) \o Performance(recent)
                \o CostDistribution(list, total_cost)
    IN  IF recommendations = << >>
        THEN <<NoOpportunities>>
        ELSE <<Head(recommendations)>>

\* lines 215-295: the rules, in order, and the advisory of line 288 when
\* none contributed
RuleAdvisories(list, total_cost) ==
    LET recent == Recent(list, RecentWindow)
    IN  IF PerformanceFaults(recent) \/ (total_cost > 0 /\ list = << >>)
        THEN Raised("ValueError")
        ELSE LET recommendations ==
                     CostOptimization(list) \o DataPrivacy(list)
                         \o Reliability(recent) \o Performance(recent)
                         \o CostDistribution(list, total_cost)
             IN  IF recommendations = << >>
                 THEN <<NoOpportunities>>
                 ELSE recommendations

\* (mutant) the rules are evaluated on any number of samples
Recommendations_NoMinimum(list, total_cost) == RuleAdvisories(list, total_cost)

\* get_recommendations(), lines 210-295
Recommendations(list, total_cost) ==
    IF Len(list) < MinSamples
    THEN <<NeedMoreData>>
    ELSE RuleAdvisories(list, total_cost)

----------------------------------------------------------------------------
\* Construction

\* (mutant) the enable flags are taken as passed, without the client test
InitRouter_FlagsOnly ==
    \E cortex_client, mistral_client, claude_client, flag_cortex, flag_mistral \in BOOLEAN :
        /\ cortex = cortex_client
        /\ mistral = mistral_client
        /\ claude = claude_client
        /\ enable_cortex = flag_cortex
        /\ enable_mistral = flag_mistral

\* HybridRouter.__init__ with every choice of clients and enable flags,
\* HybridMetrics.__init__ with max_history = capacity
InitRouter ==
    \E cortex_client, mistral_client, claude_client, flag_cortex, flag_mistral \in BOOLEAN :
        /\ cortex = cortex_client
        /\ mistral = mistral_client
        /\ claude = claude_client
        /\ enable_cortex = (flag_cortex /\ cortex_client)
        /\ enable_mistral = (flag_mistral /\ mistral_client)

InitCalls ==
    /\ op = "init"
    /\ decision = NoDecision
    /\ warned = FALSE
    /\ outcome = NoOutcome
    /\ invoked = {}
    /\ args = << >>
    /\ report = NoReport

InitMetrics(capacity) ==
    /\ queries = << >>
    /\ max_history = capacity
    /\ _total_cost = 0
    /\ _query_count = 0
    /\ _success_count = 0
    /\ now = 1
    /\ logged = << >>

Threads == 1 .. NumThreads

NoFrame == [in |-> None, metric |-> None, ref |-> 0, tmp |-> None]

InitThreads ==
    /\ pc = [t \in Threads |-> "idle"]
    /\ frame = [t \in Threads |-> NoFrame]
    /\ listId = 1
    /\ retired = << >>

Init ==
    /\ InitRouter
    /\ context \in QueryContext
    /\ InitCalls
    /\ InitMetrics(MaxHistory)
    /\ InitThreads

----------------------------------------------------------------------------
\* Operations

\* (mutant) route() counts its calls in the telemetry counters
route_Counting ==
    /\ op' = "route"
    /\ decision' = RouteResult(context)
    /\ warned' = RouteWarns(context)
    /\ outcome' = NoOutcome
    /\ invoked' = {}
    /\ _query_count' = _query_count + 1
    /\ UNCHANGED <<queries, max_history, _total_cost, _success_count, now, logged>>
    /\ UNCHANGED <<routerVars, context, readVars, threadVars>>

\* HybridRouter.route(context)
route ==
    /\ op' = "route"
    /\ decision' = RouteResult(context)
    /\ warned' = RouteWarns(context)
    /\ outcome' = NoOutcome
    /\ invoked' = {}
    /\ UNCHANGED <<routerVars, context, readVars, storeVars, threadVars>>

\* _execute_cortex / _execute_mistral / _execute_claude: the adapter's call of
\* its client either returns or raises
_execute_cortex(clientRaises) ==
    IF ~cortex THEN Raised("Cortex client not configured")
    ELSE IF clientRaises THEN Raised("client error")
    ELSE [value |-> "cortex result"]

_execute_mistral(clientRaises) ==
    IF ~mistral THEN Raised("Mistral client not configured")
    ELSE IF clientRaises THEN Raised("client error")
    ELSE [value |-> "mistral result"]

_execute_claude(clientRaises) ==
    IF ~claude THEN Raised("Claude client not configured")
    ELSE IF clientRaises THEN Raised("client error")
    ELSE [value |-> "claude result"]

\* the adapter execute() dispatches to, lines 248-253
AdapterFor(backend) ==
    IF backend = "cortex" THEN "_execute_cortex"
    ELSE IF backend = "mistral" THEN "_execute_mistral"
    ELSE "_execute_claude"

Dispatch(backend, clientRaises) ==
    IF backend = "cortex" THEN _execute_cortex(clientRaises)
    ELSE IF backend = "mistral" THEN _execute_mistral(clientRaises)
    ELSE _execute_claude(clientRaises)

\* (mutant) no except clause: what the adapter raises leaves execute()
Outcome_Propagates(d, result, latency_ms) ==
    IF IsRaised(result)
    THEN result
    ELSE [success |-> TRUE, result |-> result.value,
          routing |-> [backend |-> d.backend, reason |-> d.reason,
                       data_exposure |-> d.data_exposure,
                       estimated_cost |-> d.estimated_cost],
          latency_ms |-> latency_ms]

\* the dict execute() returns, lines 255-278
Outcome(d, result, latency_ms) ==
    IF IsRaised(result)
    THEN [success |-> FALSE, error |-> result.raised,
          routing |-> [backend |-> d.backend, reason |-> d.reason]]
    ELSE [success |-> TRUE, result |-> result.value,
          routing |-> [backend |-> d.backend, reason |-> d.reason,
                       data_exposure |-> d.data_exposure,
                       estimated_cost |-> d.estimated_cost],
          latency_ms |-> latency_ms]

\* HybridRouter.execute(context); route() is called outside the try block
execute(clientRaises, latency_ms) ==
    LET d == RouteResult(context)
    IN  /\ op' = "execute"
        /\ decision' = d
        /\ warned' = RouteWarns(context)
        /\ IF IsRaised(d)
           THEN /\ outcome' = d
                /\ invoked' = {}
           ELSE /\ outcome' = Outcome(d, Dispatch(d.backend, clientRaises), latency_ms)
                /\ invoked' = {[adapter |-> AdapterFor(d.backend),
                                 raised |-> IsRaised(Dispatch(d.backend, clientRaises))]}
        /\ UNCHANGED <<routerVars, context, readVars, storeVars, threadVars>>

\* HybridMetrics.log_query(...), run without interruption
log_query(in) ==
    LET metric == QueryMetric(now, in)
    IN  /\ op' = "log_query"
        /\ now' = now + 1
        /\ queries' = Trim(Append(queries, metric))
        /\ _query_count' = _query_count + 1
        /\ _total_cost' = _total_cost + in.estimated_cost
        /\ _success_count' = IF in.success THEN _success_count + 1 ELSE _success_count
        /\ logged' = Append(logged, metric)
        /\ UNCHANGED max_history
        /\ args' = in
        /\ report' = NoReport
        /\ UNCHANGED <<decision, warned, outcome, invoked>>
        /\ UNCHANGED <<routerVars, context, threadVars>>

\* time passes between two calls
Advance(ticks) ==
    /\ now' = now + ticks
    /\ UNCHANGED <<queries, max_history, _total_cost, _query_count, _success_count, logged>>
    /\ UNCHANGED <<routerVars, context, readVars, callVars, threadVars>>

\* HybridMetrics.get_aggregated_metrics(start_time, end_time)
get_aggregated_metrics(start_time, end_time) ==
    /\ op' = "get_aggregated_metrics"
    /\ args' = [start_time |-> start_time, end_time |-> end_time]
    /\ report' = AggregatedMetrics(FilterByTime(queries, start_time, end_time))
    /\ UNCHANGED <<decision, warned, outcome, invoked>>
    /\ UNCHANGED <<routerVars, context, storeVars, threadVars>>

\* HybridMetrics.get_cost_forecast(days)
get_cost_forecast(days) ==
    /\ op' = "get_cost_forecast"
    /\ args' = [days |-> days]
    /\ report' = CostForecast(queries, days)
    /\ UNCHANGED <<decision, warned, outcome, invoked>>
    /\ UNCHANGED <<routerVars, context, storeVars, threadVars>>

\* HybridMetrics.export_metrics(format)
export_metrics(format) ==
    /\ op' = "export_metrics"
    /\ args' = [format |-> format]
    /\ report' = Export(queries, format)
    /\ UNCHANGED <<decision, warned, outcome, invoked>>
    /\ UNCHANGED <<routerVars, context, storeVars, threadVars>>

\* HybridMetrics.get_recommendations()
get_recommendations ==
    /\ op' = "get_recommendations"
    /\ args' = << >>
    /\ report' = Recommendations(queries, _total_cost)
    /\ UNCHANGED <<decision, warned, outcome, invoked>>
    /\ UNCHANGED <<routerVars, context, storeVars, threadVars>>

----------------------------------------------------------------------------
\* Specifications

\* the router alone: one context, every configuration
Next ==
    \/ route
    \/ \E clientRaises \in BOOLEAN, latency_ms \in Latencies :
           execute(clientRaises, latency_ms)

Spec == Init /\ [][Next]_vars

\* router calls interleaved with log_query calls on the telemetry store
NextShared ==
    \/ route
    \/ \E clientRaises \in BOOLEAN, latency_ms \in Latencies :
           execute(clientRaises, latency_ms)
    \/ \E in \in MetricInputs : _query_count < MaxRouterLogs /\ log_query(in)

\* the token estimate only scales the cost: one value is kept here
InitShared ==
    /\ InitRouter
    /\ context \in {c \in QueryContext : c.estimated_tokens = 0}
    /\ InitCalls
    /\ InitMetrics(MaxHistory)
    /\ InitThreads

SpecShared == InitShared /\ [][NextShared]_vars

\* the telemetry store alone, every capacity up to MaxHistory, calls one
\* after the other
InitStore ==
    /\ cortex = TRUE /\ mistral = TRUE /\ claude = TRUE
    /\ enable_cortex = TRUE /\ enable_mistral = TRUE
    /\ context = [data_source |-> "snowflake", sensitivity |-> "internal",
                  complexity |-> "simple", requires_iteration |-> FALSE,
                  estimated_tokens |-> 0, user_preference |-> None]
    /\ InitCalls
    /\ \E capacity \in 0 .. MaxHistory : InitMetrics(capacity)
    /\ InitThreads

NextStore ==
    \E in \in MetricInputs : _query_count < MaxCalls /\ log_query(in)

SpecStore == InitStore /\ [][NextStore]_vars

\* the telemetry store and its read-only operations, calls one after the
\* other, with time passing in between
AnalyticsInputs ==
    {[question |-> 12, sensitivity |-> "internal", complexity |-> "simple",
      backend |-> "claude_opus", success |-> TRUE, iterations |-> 1,
      latency_ms |-> 120, estimated_cost |-> 3000],
     [question |-> 60, sensitivity |-> "restricted", complexity |-> "complex",
      backend |-> "mistral", success |-> FALSE, iterations |-> 3,
      latency_ms |-> 7000, estimated_cost |-> 1000],
     [question |-> 50, sensitivity |-> "internal", complexity |-> "complex",
      backend |-> "claude_opus", success |-> FALSE, iterations |-> 2,
      latency_ms |-> 7000, estimated_cost |-> 15000]}

\* time bounds, forecast periods and export formats a caller passes
StartTimes == {NoTime, 2}
EndTimes == {NoTime, 1, 2}
ForecastDays == {0 - 1, 0, 30}
ExportFormats == {"json", "csv", "xml"}

\* ticks that pass at once: with the tick of a log_query call the first
\* makes a tenth of a day, the second more than a day
ClockSteps == {9, 100}

InitAnalytics ==
    /\ cortex = TRUE /\ mistral = TRUE /\ claude = TRUE
    /\ enable_cortex = TRUE /\ enable_mistral = TRUE
    /\ context = [data_source |-> "snowflake", sensitivity |-> "internal",
                  complexity |-> "simple", requires_iteration |-> FALSE,
                  estimated_tokens |-> 0, user_preference |-> None]
    /\ InitCalls
    /\ InitMetrics(MaxHistory)
    /\ InitThreads

NextAnalytics ==
    \/ \E in \in AnalyticsInputs : _query_count < MaxReadCalls /\ log_query(in)
    \/ \E ticks \in ClockSteps : now < MaxClock /\ Advance(ticks)
    \/ \E start_time \in StartTimes, end_time \in EndTimes :
           get_aggregated_metrics(start_time, end_time)
    \/ \E days \in ForecastDays : get_cost_forecast(days)
    \/ \E format \in ExportFormats : export_metrics(format)

SpecAnalytics == InitAnalytics /\ [][NextAnalytics]_vars

----------------------------------------------------------------------------
\* HybridMetrics.log_query(...) run by concurrent threads. A thread can be
\* preempted between any two bytecodes; list.append, len and slicing are
\* single calls into the interpreter, while "x += 1" on an attribute and
\* "self.queries = self.queries[...]" each read, compute and write back.

\* the list object a reference denotes: the one self.queries refers to now,
\* or one it referred to before
ListOf(ref) == IF ref = listId THEN queries ELSE retired[ref]

Goto(t, label) == pc' = [pc EXCEPT ![t] = label]

\* lines 109-122: the call starts, the metric is built from the clock
lq_call(t, in) ==
    /\ pc[t] = "idle"
    /\ now <= MaxConcCalls
    /\ frame' = [frame EXCEPT ![t] =
                    [in |-> in, metric |-> QueryMetric(now, in), ref |-> 0, tmp |-> None]]
    /\ now' = now + 1
    /\ Goto(t, "load_list")
    /\ op' = "log_query"
    /\ UNCHANGED <<queries, max_history, _total_cost, _query_count, _success_count, logged>>
    /\ UNCHANGED <<listId, retired>>
    /\ UNCHANGED <<routerVars, context, readVars, decision, warned, outcome, invoked>>

\* a step of thread t that reads self.queries into a local reference
LoadList(t, from, to) ==
    /\ pc[t] = from
    /\ frame' = [frame EXCEPT ![t].ref = listId]
    /\ Goto(t, to)
    /\ UNCHANGED <<storeVars, listId, retired>>
    /\ UNCHANGED <<routerVars, context, readVars, callVars>>

\* line 124, self.queries
lq_load_list(t) == LoadList(t, "load_list", "append")

\* line 124, .append(metric): the object appended to is the one loaded
lq_append(t) ==
    /\ pc[t] = "append"
    /\ IF frame[t].ref = listId
       THEN /\ queries' = Append(queries, frame[t].metric)
            /\ UNCHANGED retired
       ELSE /\ retired' = [retired EXCEPT ![frame[t].ref] = Append(@, frame[t].metric)]
            /\ UNCHANGED queries
    /\ logged' = Append(logged, frame[t].metric)
    /\ Goto(t, "count_load")
    /\ UNCHANGED <<max_history, _total_cost, _query_count, _success_count, now>>
    /\ UNCHANGED <<frame, listId>>
    /\ UNCHANGED <<routerVars, context, readVars, callVars>>

\* line 125, self._query_count += 1
lq_count_load(t) ==
    /\ pc[t] = "count_load"
    /\ frame' = [frame EXCEPT ![t].tmp = _query_count]
    /\ Goto(t, "count_store")
    /\ UNCHANGED <<storeVars, listId, retired>>
    /\ UNCHANGED <<routerVars, context, readVars, callVars>>

lq_count_store(t) ==
    /\ pc[t] = "count_store"
    /\ _query_count' = frame[t].tmp + 1
    /\ Goto(t, "cost_load")
    /\ UNCHANGED <<queries, max_history, _total_cost, _success_count, now, logged>>
    /\ UNCHANGED <<frame, listId, retired>>
    /\ UNCHANGED <<routerVars, context, readVars, callVars>>

\* line 126, self._total_cost += estimated_cost
lq_cost_load(t) ==
    /\ pc[t] = "cost_load"
    /\ frame' = [frame EXCEPT ![t].tmp = _total_cost]
    /\ Goto(t, "cost_store")
    /\ UNCHANGED <<storeVars, listId, retired>>
    /\ UNCHANGED <<routerVars, context, readVars, callVars>>

\* lines 126-127: the store, then the test of success
lq_cost_store(t) ==
    /\ pc[t] = "cost_store"
    /\ _total_cost' = frame[t].tmp + frame[t].in.estimated_cost
    /\ Goto(t, IF frame[t].in.success THEN "success_load" ELSE "len_load")
    /\ UNCHANGED <<queries, max_history, _query_count, _success_count, now, logged>>
    /\ UNCHANGED <<frame, listId, retired>>
    /\ UNCHANGED <<routerVars, context, readVars, callVars>>

\* line 128, self._success_count += 1
lq_success_load(t) ==
    /\ pc[t] = "success_load"
    /\ frame' = [frame EXCEPT ![t].tmp = _success_count]
    /\ Goto(t, "success_store")
    /\ UNCHANGED <<storeVars, listId, retired>>
    /\ UNCHANGED <<routerVars, context, readVars, callVars>>

lq_success_store(t) ==
    /\ pc[t] = "success_store"
    /\ _success_count' = frame[t].tmp + 1
    /\ Goto(t, "len_load")
    /\ UNCHANGED <<queries, max_history, _total_cost, _query_count, now, logged>>
    /\ UNCHANGED <<frame, listId, retired>>
    /\ UNCHANGED <<routerVars, context, readVars, callVars>>

\* line 131, self.queries
lq_len_load(t) == LoadList(t, "len_load", "len")

\* line 131, len(...) > self.max_history; the call returns when it is not
lq_len(t) ==
    /\ pc[t] = "len"
    /\ IF Len(ListOf(frame[t].ref)) > max_history
       THEN /\ Goto(t, "slice_load")
            /\ UNCHANGED frame
       ELSE /\ Goto(t, "idle")
            /\ frame' = [frame EXCEPT ![t] = NoFrame]
    /\ UNCHANGED <<storeVars, listId, retired>>
    /\ UNCHANGED <<routerVars, context, readVars, callVars>>

\* line 132, self.queries on the right-hand side
lq_slice_load(t) == LoadList(t, "slice_load", "slice")

\* line 132, [-self.max_history:]: a new list
lq_slice(t) ==
    /\ pc[t] = "slice"
    /\ frame' = [frame EXCEPT ![t].tmp = LastN(ListOf(frame[t].ref), max_history),
                              ![t].ref = 0]
    /\ Goto(t, "assign")
    /\ UNCHANGED <<storeVars, listId, retired>>
    /\ UNCHANGED <<routerVars, context, readVars, callVars>>

\* the list objects some thread other than t still refers to
Held(t) == {frame[u].ref : u \in Threads \ {t}}

\* line 132, self.queries = ...: the new list replaces the old object, which
\* lives on while a thread holds a reference to it; the call returns
lq_assign(t) ==
    /\ pc[t] = "assign"
    /\ queries' = frame[t].tmp
    /\ listId' = listId + 1
    /\ retired' = [id \in (DOMAIN retired \cup {listId}) \cap Held(t) |->
                      IF id = listId THEN queries ELSE retired[id]]
    /\ frame' = [frame EXCEPT ![t] = NoFrame]
    /\ Goto(t, "idle")
    /\ UNCHANGED <<max_history, _total_cost, _query_count, _success_count, now, logged>>
    /\ UNCHANGED <<routerVars, context, readVars, callVars>>

InitConc ==
    /\ cortex = TRUE /\ mistral = TRUE /\ claude = TRUE
    /\ enable_cortex = TRUE /\ enable_mistral = TRUE
    /\ context = [data_source |-> "snowflake", sensitivity |-> "internal",
                  complexity |-> "simple", requires_iteration |-> FALSE,
                  estimated_tokens |-> 0, user_preference |-> None]
    /\ InitCalls
    /\ \E capacity \in 1 .. MaxHistory : InitMetrics(capacity)
    /\ InitThreads

NextConc ==
    \E t \in Threads :
        \/ \E in \in MetricInputs : lq_call(t, in)
        \/ lq_load_list(t)
        \/ lq_append(t)
        \/ lq_count_load(t)
        \/ lq_count_store(t)
        \/ lq_cost_load(t)
        \/ lq_cost_store(t)
        \/ lq_success_load(t)
        \/ lq_success_store(t)
        \/ lq_len_load(t)
        \/ lq_len(t)
        \/ lq_slice_load(t)
        \/ lq_slice(t)
        \/ lq_assign(t)

SpecConc == InitConc /\ [][NextConc]_vars

\* get_aggregated_metrics run by a thread next to log_query calls.  A list
\* object only grows while it is iterated, so an iteration sees the object
\* as it is when the iteration ends: each loop over a list is one step.

\* the thread that reads, the others log
Reader == 1

\* the list the local `filtered` refers to: the store's list object, or a
\* list of its own that a comprehension built
Filtered(t) ==
    IF frame[t].ref = 0 THEN frame[t].tmp ELSE ListOf(frame[t].ref)

\* the call starts; one call is followed
ga_call(t, start_time, end_time) ==
    /\ pc[t] = "idle"
    /\ report = NoReport
    /\ frame' = [frame EXCEPT ![t] =
                    [in |-> None, metric |-> None, ref |-> 0, tmp |-> << >>,
                     start_time |-> start_time, end_time |-> end_time,
                     total |-> 0, successful |-> 0, total_cost |-> 0,
                     latency |-> 0, iterations |-> 0]]
    /\ args' = [start_time |-> start_time, end_time |-> end_time]
    /\ Goto(t, "ga_load")
    /\ UNCHANGED <<storeVars, listId, retired, report>>
    /\ UNCHANGED <<routerVars, context, callVars>>

\* line 154, filtered = self.queries: no copy
ga_load(t) == LoadList(t, "ga_load", "ga_from")

\* a step of the reader that changes its locals only
ReaderStep(t, from, to, locals) ==
    /\ pc[t] = from
    /\ frame' = [frame EXCEPT ![t] = locals]
    /\ Goto(t, to)
    /\ UNCHANGED <<storeVars, listId, retired>>
    /\ UNCHANGED <<routerVars, context, readVars, callVars>>

\* lines 155-156
ga_from(t) ==
    ReaderStep(t, "ga_from", "ga_until",
        IF frame[t].start_time # NoTime
        THEN [frame[t] EXCEPT
                 !.tmp = FilterByTime(Filtered(t), frame[t].start_time, NoTime),
                 !.ref = 0]
        ELSE frame[t])

\* lines 157-158
ga_until(t) ==
    ReaderStep(t, "ga_until", "ga_empty",
        IF frame[t].end_time # NoTime
        THEN [frame[t] EXCEPT
                 !.tmp = FilterByTime(Filtered(t), NoTime, frame[t].end_time),
                 !.ref = 0]
        ELSE frame[t])

\* the call returns value
ga_return(t, value) ==
    /\ report' = value
    /\ op' = "get_aggregated_metrics"
    /\ frame' = [frame EXCEPT ![t] = NoFrame]
    /\ Goto(t, "idle")
    /\ UNCHANGED <<storeVars, listId, retired, args>>
    /\ UNCHANGED <<routerVars, context, decision, warned, outcome, invoked>>

\* lines 160-171: if not filtered
ga_empty(t) ==
    /\ pc[t] = "ga_empty"
    /\ IF Filtered(t) = << >>
       THEN ga_return(t, AggregatedMetrics(<< >>))
       ELSE ReaderStep(t, "ga_empty", "ga_total", frame[t])

\* line 174, total = len(filtered)
ga_total(t) ==
    ReaderStep(t, "ga_total", "ga_successful",
        [frame[t] EXCEPT !.total = Len(Filtered(t))])

\* line 175, successful = sum(1 for q in filtered if q.success)
ga_successful(t) ==
    ReaderStep(t, "ga_successful", "ga_cost",
        [frame[t] EXCEPT !.successful = Len(SelectSeq(Filtered(t), IsSuccess))])

\* line 177, total_cost
ga_cost(t) ==
    ReaderStep(t, "ga_cost", "ga_latency",
        [frame[t] EXCEPT !.total_cost = SumCost(Filtered(t))])

\* line 178, the sum of avg_latency
ga_latency(t) ==
    ReaderStep(t, "ga_latency", "ga_iterations",
        [frame[t] EXCEPT !.latency = SumLatency(Filtered(t))])

\* line 179, the sum of avg_iterations
ga_iterations(t) ==
    ReaderStep(t, "ga_iterations", "ga_group",
        [frame[t] EXCEPT !.iterations = SumIterations(Filtered(t))])

\* lines 181-201: the grouping loop and the AggregatedMetrics returned
ga_group(t) ==
    /\ pc[t] = "ga_group"
    /\ ga_return(t,
           [total_queries |-> frame[t].total,
            successful_queries |-> frame[t].successful,
            failed_queries |-> frame[t].total - frame[t].successful,
            total_cost |-> frame[t].total_cost,
            avg_latency_ms |-> Frac(frame[t].latency, frame[t].total),
            queries_by_backend |-> CountBy(Filtered(t), "backend"),
            queries_by_complexity |-> CountBy(Filtered(t), "complexity"),
            queries_by_sensitivity |-> CountBy(Filtered(t), "sensitivity"),
            avg_iterations |-> Frac(frame[t].iterations, frame[t].total)])

NextRead ==
    \/ \E t \in Threads \ {Reader} :
           \/ \E in \in MetricInputs : lq_call(t, in)
           \/ lq_load_list(t)
           \/ lq_append(t)
           \/ lq_count_load(t)
           \/ lq_count_store(t)
           \/ lq_cost_load(t)
           \/ lq_cost_store(t)
           \/ lq_success_load(t)
           \/ lq_success_store(t)
           \/ lq_len_load(t)
           \/ lq_len(t)
           \/ lq_slice_load(t)
           \/ lq_slice(t)
           \/ lq_assign(t)
    \/ \E start_time \in StartTimes, end_time \in EndTimes :
           ga_call(Reader, start_time, end_time)
    \/ ga_load(Reader)
    \/ ga_from(Reader)
    \/ ga_until(Reader)
    \/ ga_empty(Reader)
    \/ ga_total(Reader)
    \/ ga_successful(Reader)
    \/ ga_cost(Reader)
    \/ ga_latency(Reader)
    \/ ga_iterations(Reader)
    \/ ga_group(Reader)

SpecRead == InitConc /\ [][NextRead]_vars

----------------------------------------------------------------------------
\* Properties of the router (Spec)

RouterReturned == op \in {"route", "execute"}

ExposureLevels == {"none", "schema_only", "aggregated", "full"}

\* C1: the backend named by route() is available at decision time: cortex
\* only if enable_cortex, mistral only if enable_mistral, a Claude tier only
\* if a claude client is configured.
C1_DecisionBackendAvailable ==
    (RouterReturned /\ IsDecision(decision)) =>
        /\ decision.backend = "cortex" => enable_cortex
        /\ decision.backend = "mistral" => enable_mistral
        /\ decision.backend \in ClaudeTiers => claude

\* C2: a full-data-capable backend (cortex, mistral) always gets exposure
\* "full"; a Claude tier chosen for confidential or restricted data never
\* gets "full", only schema_only or aggregated.
C2_ExposureByCapability ==
    (RouterReturned /\ IsDecision(decision)) =>
        /\ decision.backend \in {"cortex", "mistral"} =>
               decision.data_exposure = "full"
        /\ (/\ context.sensitivity \in {"confidential", "restricted"}
            /\ decision.backend \in ClaudeTiers) =>
               decision.data_exposure \in {"schema_only", "aggregated"}

C2_Witness ==
    /\ op = "route"
    /\ context.sensitivity = "restricted"
    /\ context.requires_iteration
    /\ context.user_preference = "claude_opus"
    /\ decision.backend = "claude_opus"
    /\ decision.data_exposure = "schema_only"

\* the preference of the context names a backend the configuration has
PreferenceAvailable ==
    \/ context.user_preference = "cortex" /\ enable_cortex
    \/ context.user_preference = "mistral" /\ enable_mistral
    \/ context.user_preference \in ClaudeTiers /\ claude

\* C3: a preference that is present and available is honoured whatever the
\* data source, complexity and iteration flag: the decision names the
\* requested backend with reason "User preference" and the exposure of the
\* generic exposure rule for (requested backend, sensitivity).
C3_PreferenceHonoured ==
    (RouterReturned /\ PreferenceAvailable) =>
        /\ IsDecision(decision)
        /\ decision.backend = context.user_preference
        /\ decision.reason = "User preference"
        /\ decision.data_exposure =
               _get_data_exposure(context.user_preference, context.sensitivity)

C3_Witness ==
    /\ op = "route"
    /\ context.user_preference = "claude_haiku" /\ claude
    /\ context.data_source = "snowflake" /\ context.requires_iteration
    /\ enable_cortex /\ enable_mistral
    /\ context.sensitivity = "internal"
    /\ decision.backend = "claude_haiku"
    /\ decision.data_exposure = "aggregated"

C7_AdapterFailureCaught ==
    op = "execute" =>
        /\ ~IsRaised(outcome)
        /\ Cardinality(invoked) = 1
        /\ \A call \in invoked :
               /\ call.adapter =
                      (IF decision.backend = "cortex" THEN "_execute_cortex"
                       ELSE IF decision.backend = "mistral" THEN "_execute_mistral"
                       ELSE "_execute_claude")
               /\ call.raised =>
                      /\ outcome.success = FALSE
                      /\ "error" \in DOMAIN outcome
                      /\ outcome.routing.backend = decision.backend
                      /\ outcome.routing.reason = decision.reason
        /\ (decision.backend \in ClaudeTiers /\ ~claude) =>
               /\ outcome.success = FALSE
               /\ outcome.error = "Claude client not configured"

C7_Witness ==
    /\ op = "execute"
    /\ decision.backend = "claude_sonnet" /\ ~claude
    /\ outcome.success = FALSE
    /\ outcome.error = "Claude client not configured"
    /\ invoked = {[adapter |-> "_execute_claude", raised |-> TRUE]}

\* C8: every outcome of execute() has the success flag, a result or an
\* error, the routing metadata and the measured latency.
C8_OutcomeComplete ==
    op = "execute" =>
        /\ {"success", "routing", "latency_ms"} \subseteq DOMAIN outcome
        /\ ("result" \in DOMAIN outcome) \/ ("error" \in DOMAIN outcome)

\* C11: a token estimate of 0 is costed as 1000 tokens for every backend,
\* and the decision of route() carries the cost of the backend it chose.
C11_ZeroTokensCostedAsThousand ==
    /\ \A b \in Backend : _estimate_cost(b, 0) = _estimate_cost(b, 1000)
    /\ (RouterReturned /\ IsDecision(decision)) =>
           /\ decision.estimated_cost =
                  _estimate_cost(decision.backend, context.estimated_tokens)
           /\ context.estimated_tokens \in {0, 1000} =>
                  decision.estimated_cost = 1000 * COSTS[decision.backend]

C11_Witness ==
    /\ op = "route"
    /\ context.estimated_tokens = 0
    /\ decision.backend = "claude_opus"
    /\ decision.estimated_cost = 15000000

\* C12: the estimated cost of every decision is >= 0, for every integer the
\* estimated_tokens field can carry.
C12_CostNonNegative ==
    (RouterReturned /\ IsDecision(decision)) => decision.estimated_cost >= 0

\* the context names a preference the configuration does not have
PreferenceUnavailable ==
    context.user_preference # None /\ ~PreferenceAvailable

\* C17: a call whose context names a preference that is not available ends
\* in a ConfigurationError: route() returns no decision.
C17_UnavailablePreferenceFails ==
    (RouterReturned /\ PreferenceUnavailable) => IsRaised(decision)

\* C17 as amended: such a call raises nothing; route() does not honour the
\* preference and returns the decision of its rules, which never names the
\* unavailable cortex or mistral backend that was asked for, and execute()
\* returns an outcome.
C17_UnavailablePreferenceIgnored ==
    (RouterReturned /\ PreferenceUnavailable) =>
        /\ ~IsRaised(decision)
        /\ IsDecision(decision)
        /\ decision.reason # "User preference"
        /\ context.user_preference \in {"cortex", "mistral"} =>
               decision.backend # context.user_preference
        /\ op = "execute" => "success" \in DOMAIN outcome

C17_Witness ==
    /\ op = "execute"
    /\ context.user_preference = "mistral" /\ ~enable_mistral
    /\ claude
    /\ decision.backend = "claude_sonnet"
    /\ outcome.success

\* the sensitive query that needs iteration and finds no safe engine
NoSafeEngine ==
    /\ ~PreferenceAvailable
    /\ context.sensitivity \in {"confidential", "restricted"}
    /\ context.requires_iteration
    /\ ~enable_mistral
    /\ ~enable_cortex \/ context.data_source # "snowflake"

\* C18: with no honoured preference, confidential or restricted data that
\* needs iteration and finds neither the self-hosted engine nor a matching
\* in-perimeter engine goes to a Claude tier by complexity (sonnet for
\* complex, haiku otherwise) with exposure schema_only and a warning; the
\* warning is logged in no other case.
C18_SensitiveFallbackWarns ==
    RouterReturned =>
        /\ warned <=> NoSafeEngine
        /\ NoSafeEngine =>
               /\ IsDecision(decision)
               /\ decision.backend =
                      (IF context.complexity = "complex"
                       THEN "claude_sonnet" ELSE "claude_haiku")
               /\ decision.data_exposure = "schema_only"

C18_Witness ==
    /\ op = "route"
    /\ context.sensitivity = "restricted"
    /\ context.complexity = "complex"
    /\ context.requires_iteration
    /\ ~enable_mistral /\ ~enable_cortex
    /\ decision.backend = "claude_sonnet"
    /\ decision.data_exposure = "schema_only"
    /\ warned

\* the in-perimeter engine matches the data source and is available
CortexMatches == context.data_source = "snowflake" /\ enable_cortex

\* C19: public or internal data, no honoured preference, not the
\* in-perimeter + iteration rule: simple goes to cortex (full) if it
\* matches, else haiku (schema_only); complex goes to cortex (full) if it
\* matches, else opus with aggregated if iteration is required and
\* schema_only otherwise; moderate goes to sonnet (schema_only).
C19_ComplexityTable ==
    (/\ RouterReturned
     /\ context.sensitivity \in {"public", "internal"}
     /\ ~PreferenceAvailable
     /\ ~(CortexMatches /\ context.requires_iteration)) =>
        /\ IsDecision(decision)
        /\ <<decision.backend, decision.data_exposure>> =
               (IF context.complexity = "simple"
                THEN IF CortexMatches THEN <<"cortex", "full">>
                     ELSE <<"claude_haiku", "schema_only">>
                ELSE IF context.complexity = "complex"
                THEN IF CortexMatches THEN <<"cortex", "full">>
                     ELSE IF context.requires_iteration
                          THEN <<"claude_opus", "aggregated">>
                          ELSE <<"claude_opus", "schema_only">>
                ELSE <<"claude_sonnet", "schema_only">>)

C19_Witness ==
    /\ op = "route"
    /\ context.sensitivity = "internal"
    /\ context.complexity = "complex"
    /\ context.data_source = "postgres"
    /\ context.requires_iteration
    /\ context.user_preference = None
    /\ decision.backend = "claude_opus"
    /\ decision.data_exposure = "aggregated"

\* C21: with no honoured preference, Snowflake data that requires iteration
\* goes to cortex with exposure full whenever cortex is available, for every
\* sensitivity and complexity, also when mistral is available and the data
\* is confidential or restricted.
C21_CortexRuleFirst ==
    (/\ RouterReturned
     /\ ~PreferenceAvailable
     /\ context.data_source = "snowflake"
     /\ context.requires_iteration
     /\ enable_cortex) =>
        /\ IsDecision(decision)
        /\ decision.backend = "cortex"
        /\ decision.data_exposure = "full"

C21_Witness ==
    /\ op = "route"
    /\ context.user_preference = None
    /\ context.data_source = "snowflake"
    /\ context.requires_iteration
    /\ context.sensitivity = "restricted"
    /\ enable_cortex /\ enable_mistral
    /\ decision.backend = "cortex"
    /\ decision.data_exposure = "full"

\* the order schema_only < aggregated < full
ExposureRank(e) ==
    IF e = "none" THEN 0
    ELSE IF e = "schema_only" THEN 1
    ELSE IF e = "aggregated" THEN 2
    ELSE 3

\* C27: a decision route() reaches through its rules has an exposure no
\* greater than the one _get_data_exposure gives for the same backend and
\* sensitivity, and route() never returns the exposure "none".
C27_RulesNoMoreThanGeneric ==
    (RouterReturned /\ IsDecision(decision)) =>
        /\ decision.data_exposure # "none"
        /\ ~PreferenceAvailable =>
               ExposureRank(decision.data_exposure) <=
                   ExposureRank(_get_data_exposure(decision.backend,
                                                   context.sensitivity))

C27_Witness ==
    /\ op = "route"
    /\ context.user_preference = None
    /\ context.sensitivity = "internal"
    /\ context.complexity = "complex"
    /\ context.requires_iteration
    /\ decision.backend = "claude_opus"
    /\ decision.data_exposure = "aggregated"
    /\ _get_data_exposure("claude_opus", "internal") = "aggregated"

\* C28: the decision for a context whose preference is unavailable equals
\* the decision for the same context without a preference, and its reason is
\* not "User preference".
C28_UnavailablePreferenceAsNone ==
    (RouterReturned /\ PreferenceUnavailable) =>
        /\ decision = RouteResult([context EXCEPT !.user_preference = None])
        /\ decision.reason # "User preference"

C28_Witness ==
    /\ op = "route"
    /\ context.user_preference = "claude_opus" /\ ~claude
    /\ context.sensitivity = "public"
    /\ context.complexity = "simple"
    /\ context.data_source = "snowflake" /\ enable_cortex
    /\ decision.backend = "cortex"
    /\ decision.reason = "Simple query in Snowflake - native Cortex is efficient"

ClientNotConfigured ==
    {"Cortex client not configured", "Mistral client not configured",
     "Claude client not configured"}

\* C30: whenever route() returns cortex or mistral its client is configured,
\* so execute() fails with "client not configured" only for a Claude tier;
\* and the sensitive-data branch that selects cortex is not reached when the
\* Snowflake + iteration rule applies (so it is never the one that returns).
C30_EngineClientConfigured ==
    (RouterReturned /\ IsDecision(decision)) =>
        /\ decision.backend = "cortex" => cortex /\ enable_cortex
        /\ decision.backend = "mistral" => mistral /\ enable_mistral
        /\ (/\ op = "execute"
            /\ "error" \in DOMAIN outcome
            /\ outcome.error \in ClientNotConfigured) =>
               /\ decision.backend \in ClaudeTiers
               /\ outcome.error = "Claude client not configured"
        /\ decision.reason # "Sensitive Snowflake data with iteration - Cortex is safe"

C30_Witness ==
    /\ op = "execute"
    /\ context.user_preference = None
    /\ context.sensitivity = "confidential"
    /\ context.requires_iteration
    /\ context.data_source = "postgres"
    /\ enable_mistral /\ mistral
    /\ decision.backend = "mistral"
    /\ outcome.success

----------------------------------------------------------------------------
\* Properties of router calls next to the telemetry store (SpecShared)

\* C5: a route() call leaves the availability flags, the client handles and
\* the telemetry store as they are, and a call returns the decision the
\* call before it returned for the same context and configuration, also
\* with log_query and execute calls in between.
C5_RoutePure ==
    [][/\ op' = "route" => UNCHANGED <<routerVars, storeVars>>
       /\ (IsDecision(decision) /\ op' \in {"route", "execute"}) =>
              decision' = decision]_vars

C5_Witness ==
    /\ op = "route"
    /\ Len(logged) = 1
    /\ IsDecision(decision)
    /\ decision.backend = "claude_opus"

\* C6: every completed execute() call, successful or failed, appends
\* exactly one QueryMetric to the telemetry store, with the success flag of
\* the outcome.
C6_ExecuteLogsMetric ==
    [][op' = "execute" =>
          /\ Len(logged') = Len(logged) + 1
          /\ logged'[Len(logged')].success = outcome'.success]_vars

----------------------------------------------------------------------------
\* Properties of the telemetry store (SpecStore, SpecConc)

Min(a, b) == IF a <= b THEN a ELSE b

\* the last k entries of a list
Newest(list, k) == SubSeq(list, Len(list) - k + 1, Len(list))

\* C9: after N log_query calls on a store of capacity C >= 1 the store holds
\* exactly min(N, C) metrics: the last min(N, C) logged, unmodified and in
\* insertion order; when N > C the oldest one kept is the (N - C + 1)-th.
C9_FifoBoundedLog ==
    max_history >= 1 =>
        LET N == Len(logged)
        IN  /\ Len(queries) = Min(N, max_history)
            /\ queries = Newest(logged, Min(N, max_history))
            /\ N > max_history => queries[1] = logged[N - max_history + 1]

C9_Witness ==
    /\ max_history = 2
    /\ Len(logged) = 5
    /\ Len(queries) = 2
    /\ queries[1] = logged[4]
    /\ queries[2] = logged[5]

AllReturned == \A t \in Threads : pc[t] = "idle"

\* C29: for every max_history >= 0, 0 included, after every log_query call
\* the retained metrics are at most max_history, _query_count is the number
\* of log_query calls made and _success_count <= _query_count.
C29_RetainedWithinCapacity ==
    op = "log_query" =>
        /\ Len(queries) <= max_history
        /\ _query_count = Len(logged)
        /\ _success_count <= _query_count

\* C10: when concurrent log_query calls have all returned, the store holds
\* the newest metrics in append order, none missing but those evicted as
\* oldest, at most max_history of them, and _query_count is the number of
\* calls.
C10_ConcurrentLogQuery ==
    AllReturned =>
        /\ Len(queries) <= max_history
        /\ queries = Newest(logged, Min(Len(logged), max_history))
        /\ _query_count = Len(logged)

\* the parts of C10, one by one
C10_StoreOnly ==
    AllReturned => queries = Newest(logged, Min(Len(logged), max_history))

C10_CounterOnly ==
    AllReturned => _query_count = Len(logged)

\* the recommendation engine on a store with the default capacity
DefaultMaxHistory == 10000

AdvisoryInputs ==
    {[question |-> 12, sensitivity |-> "internal", complexity |-> "simple",
      backend |-> "claude_opus", success |-> TRUE, iterations |-> 1,
      latency_ms |-> 120, estimated_cost |-> 3000],
     [question |-> 12, sensitivity |-> "internal", complexity |-> "simple",
      backend |-> "claude_haiku", success |-> FALSE, iterations |-> 1,
      latency_ms |-> 7000, estimated_cost |-> 300],
     [question |-> 12, sensitivity |-> "confidential", complexity |-> "complex",
      backend |-> "claude_sonnet", success |-> TRUE, iterations |-> 3,
      latency_ms |-> 120, estimated_cost |-> 3000]}

InitRecommend ==
    /\ cortex = TRUE /\ mistral = TRUE /\ claude = TRUE
    /\ enable_cortex = TRUE /\ enable_mistral = TRUE
    /\ context = [data_source |-> "snowflake", sensitivity |-> "internal",
                  complexity |-> "simple", requires_iteration |-> FALSE,
                  estimated_tokens |-> 0, user_preference |-> None]
    /\ InitCalls
    /\ InitMetrics(DefaultMaxHistory)
    /\ InitThreads

NextRecommend ==
    \/ \E in \in AdvisoryInputs : _query_count < MaxAdvisoryCalls /\ log_query(in)
    \/ get_recommendations

SpecRecommend == InitRecommend /\ [][NextRecommend]_vars

\* the recommendation engine on a store that evicts: the capacity is the
\* number of samples the rules need, and more calls are made
EvictionInputs == {in \in AdvisoryInputs : in.complexity = "simple"}

InitEvict ==
    /\ cortex = TRUE /\ mistral = TRUE /\ claude = TRUE
    /\ enable_cortex = TRUE /\ enable_mistral = TRUE
    /\ context = [data_source |-> "snowflake", sensitivity |-> "internal",
                  complexity |-> "simple", requires_iteration |-> FALSE,
                  estimated_tokens |-> 0, user_preference |-> None]
    /\ InitCalls
    /\ InitMetrics(MinSamples)
    /\ InitThreads

NextEvict ==
    \/ \E in \in EvictionInputs : _query_count < MaxEvictingCalls /\ log_query(in)
    \/ get_recommendations

SpecEvict == InitEvict /\ [][NextEvict]_vars

\* the recommendation engine on samples that fire every rule, or none
FailingPremium ==
    [question |-> 12, sensitivity |-> "confidential", complexity |-> "simple",
     backend |-> "claude_opus", success |-> FALSE, iterations |-> 2,
     latency_ms |-> 60000, estimated_cost |-> 30000]

QuickSelfHosted ==
    [question |-> 12, sensitivity |-> "internal", complexity |-> "moderate",
     backend |-> "mistral", success |-> TRUE, iterations |-> 1,
     latency_ms |-> 120, estimated_cost |-> 3000]

SlowInPerimeter ==
    [question |-> 12, sensitivity |-> "internal", complexity |-> "complex",
     backend |-> "cortex", success |-> TRUE, iterations |-> 3,
     latency_ms |-> 7000, estimated_cost |-> 3000]

RuleInputs == {FailingPremium, QuickSelfHosted, SlowInPerimeter}

NextRules ==
    \/ \E in \in RuleInputs : _query_count < MaxAdvisoryCalls /\ log_query(in)
    \/ get_recommendations

SpecRules == InitRecommend /\ [][NextRules]_vars

\* the recommendation engine on a store longer than its recent window: the
\* first 99 calls log one slow premium sample, 70 slow in-perimeter ones and
\* 28 quick ones; the calls after them log any sample
WindowInputs(k) ==
    IF k = 0 THEN {FailingPremium}
    ELSE IF k <= 70 THEN {SlowInPerimeter}
    ELSE IF k <= 98 THEN {QuickSelfHosted}
    ELSE RuleInputs

NextWindow ==
    \/ \E in \in WindowInputs(_query_count) :
           _query_count < MaxWindowCalls /\ log_query(in)
    \/ get_recommendations

SpecWindow == InitRecommend /\ [][NextWindow]_vars

----------------------------------------------------------------------------
\* Properties of the read-only operations (SpecAnalytics)

RECURSIVE DictSum(_)
DictSum(d) ==
    IF DOMAIN d = {} THEN 0
    ELSE LET k == CHOOSE x \in DOMAIN d : TRUE
         IN  d[k] + DictSum([x \in DOMAIN d \ {k} |-> d[x]])

\* the retained metrics inside the period the last call asked for
InPeriod ==
    {i \in 1 .. Len(queries) :
        /\ args.start_time = NoTime \/ queries[i].timestamp >= args.start_time
        /\ args.end_time = NoTime \/ queries[i].timestamp <= args.end_time}

\* C13: over a period that contains no metric get_aggregated_metrics
\* returns counts 0, total cost 0, mean latency 0, mean iterations 0 and
\* empty grouped counts; over a period that contains one, total_queries =
\* successful_queries + failed_queries and every grouped count sums to
\* total_queries.
C13_AggregateWellDefined ==
    op = "get_aggregated_metrics" =>
        IF InPeriod = {}
        THEN /\ report.total_queries = 0
             /\ report.successful_queries = 0
             /\ report.failed_queries = 0
             /\ report.total_cost = 0
             /\ report.avg_latency_ms.num = 0 /\ report.avg_latency_ms.den # 0
             /\ report.avg_iterations.num = 0 /\ report.avg_iterations.den # 0
             /\ DOMAIN report.queries_by_backend = {}
             /\ DOMAIN report.queries_by_complexity = {}
             /\ DOMAIN report.queries_by_sensitivity = {}
        ELSE /\ report.total_queries >= 1
             /\ report.total_queries =
                    report.successful_queries + report.failed_queries
             /\ report.avg_latency_ms.den # 0 /\ report.avg_iterations.den # 0
             /\ DictSum(report.queries_by_backend) = report.total_queries
             /\ DictSum(report.queries_by_complexity) = report.total_queries
             /\ DictSum(report.queries_by_sensitivity) = report.total_queries

C13_Witness ==
    /\ op = "get_aggregated_metrics"
    /\ Len(queries) = 2
    /\ args.start_time = 2 /\ args.end_time = 1
    /\ report.total_queries = 0
    /\ DOMAIN report.queries_by_backend = {}

ProjectionFields ==
    {"forecast_period_days", "projected_queries", "projected_cost",
     "daily_query_rate", "daily_cost_rate", "cost_by_backend"}

\* C14: with 0 or 1 samples in the store get_cost_forecast returns an error
\* value without projection fields, for every days; with 2 or more it
\* returns a projection.
C14_ForecastNeedsTwoSamples ==
    op = "get_cost_forecast" =>
        IF Len(queries) <= 1
        THEN DOMAIN report = {"error"}
        ELSE DOMAIN report = ProjectionFields

C14_Witness ==
    /\ op = "get_cost_forecast"
    /\ Len(queries) = 1
    /\ args.days = 30
    /\ report.error = "Insufficient data for forecasting"

\* C16: export_metrics leaves the store and its counters unchanged; with a
\* format other than json and csv it raises and returns no output; with
\* json or csv the export has one record per retained metric, in store
\* order.
C16_ExportChecked ==
    [][op' = "export_metrics" =>
        /\ UNCHANGED <<queries, max_history, _total_cost, _query_count, _success_count>>
        /\ IF args'.format \notin {"json", "csv"}
           THEN DOMAIN report' = {"raised"}
           ELSE IF args'.format = "json"
           THEN /\ DOMAIN report' = {"json"}
                /\ Len(report'.json) = Len(queries')
                /\ \A i \in 1 .. Len(queries') :
                       /\ report'.json[i].timestamp = queries'[i].timestamp
                       /\ report'.json[i].backend = queries'[i].backend
           ELSE /\ DOMAIN report' = {"csv"}
                /\ Len(report'.csv) = Len(queries') + 1
                /\ \A i \in 1 .. Len(queries') :
                       /\ report'.csv[i + 1][1] = queries'[i].timestamp
                       /\ report'.csv[i + 1][2] = queries'[i].backend]_vars

C16_Witness ==
    /\ op = "export_metrics"
    /\ args.format = "xml"
    /\ IsRaised(report)
    /\ Len(queries) = 2 /\ _query_count = 3

\* the summed estimated cost of the retained metrics, all and per backend
SnapshotCost == SeqSum([i \in 1 .. Len(queries) |-> queries[i].estimated_cost])
SnapshotCostOf(b) ==
    SeqSum([i \in 1 .. Len(queries) |->
               IF queries[i].backend = b THEN queries[i].estimated_cost ELSE 0])

\* the numerators of the per-backend breakdown, summed
BreakdownSum(d) ==
    DictSum([b \in DOMAIN d |-> d[b].num])

\* C26: with 2 or more samples get_cost_forecast looks at the most recent
\* min(1000, n) samples; the span it divides by is never below one day (a
\* shorter one is replaced by one day); the projected queries and cost are
\* the daily rates scaled by days; and the per-backend breakdown, scaled the
\* same way, sums to the projected cost.
C26_ForecastSpanAtLeastOneDay ==
    (op = "get_cost_forecast" /\ Len(queries) >= 2) =>
        LET n == Len(queries)
            rate == report.daily_query_rate
            cost == report.daily_cost_rate
        IN  /\ rate.den > 0
            \* n samples over at least one day: at most n a day
            /\ rate.num <= n * rate.den
            /\ cost.num <= SnapshotCost * cost.den
            /\ report.projected_cost = Times(cost, args.days)
            /\ report.projected_queries = Int_(Times(rate, args.days))
            /\ \A b \in DOMAIN report.cost_by_backend :
                   report.cost_by_backend[b].den = report.projected_cost.den
            /\ BreakdownSum(report.cost_by_backend) = report.projected_cost.num

----------------------------------------------------------------------------
\* Properties of the recommendation engine (SpecRecommend)

AdvisoryTypes == {report[i].type : i \in 1 .. Len(report)}

\* C15: with fewer than 10 samples in the store get_recommendations returns
\* exactly one advisory, the "need more data" one, whatever the samples are.
C15_FewSamplesOneAdvisory ==
    (op = "get_recommendations" /\ Len(queries) < 10) =>
        report = <<[type |-> "info",
                    message |-> "Need more data for recommendations",
                    impact |-> "N/A"]>>

C15_Witness ==
    /\ op = "get_recommendations"
    /\ Len(queries) = 9
    /\ \A i \in 1 .. 9 : IsSimple(queries[i])
    /\ \E i \in 1 .. 9 : IsPremium(queries[i])
    /\ \E i \in 1 .. 9 : ~queries[i].success /\ queries[i].latency_ms > 5000
    /\ Len(report) = 1
    /\ report[1].type = "info"

\* the simple-complexity samples of the store, and those on a premium backend
SimpleSamples == {i \in 1 .. Len(queries) : queries[i].complexity = "simple"}
PremiumSimpleSamples ==
    {i \in SimpleSamples : queries[i].backend \in {"claude_opus", "claude_sonnet"}}

\* C20: with at least 10 samples, the cost_optimization advisory is emitted
\* whenever the premium simple samples are >= 30% of the simple samples, and
\* not emitted when they are fewer or when there is no simple sample.
C20_CostOptimizationAtThirtyPercent ==
    (op = "get_recommendations" /\ Len(queries) >= 10) =>
        ("cost_optimization" \in AdvisoryTypes
            <=> /\ SimpleSamples # {}
                /\ 10 * Cardinality(PremiumSimpleSamples)
                       >= 3 * Cardinality(SimpleSamples))

\* C22: after any sequence of log_query calls, evictions included, with at
\* least 10 samples the cost_distribution advisory is emitted exactly when
\* the summed cost of one backend over the current store exceeds 70% of the
\* total cost of the same store.
C22_CostDistributionOnSnapshot ==
    (op = "get_recommendations" /\ Len(queries) >= 10) =>
        ("cost_distribution" \in AdvisoryTypes
            <=> \E b \in Backend : 10 * SnapshotCostOf(b) > 7 * SnapshotCost)

----------------------------------------------------------------------------
\* Properties of the rules of the recommendation engine (SpecRules)

RuleTypes ==
    {"cost_optimization", "data_privacy", "reliability", "performance",
     "cost_distribution"}

Advisories == {report[i] : i \in 1 .. Len(report)}

\* what each rule alone gives on the store
RuleAlone(type) ==
    IF type = "cost_optimization" THEN CostOptimization(queries)
    ELSE IF type = "data_privacy" THEN DataPrivacy(queries)
    ELSE IF type = "reliability" THEN Reliability(Recent(queries, RecentWindow))
    ELSE IF type = "performance" THEN Performance(Recent(queries, RecentWindow))
    ELSE CostDistribution(queries, _total_cost)

\* C23: get_recommendations returns a non-empty list for every store; with at
\* least 10 samples the "no opportunities" advisory is present exactly when
\* none of the five rules fires, and it is then the only advisory; each of
\* the five rules contributes its advisory exactly when it fires by itself,
\* whatever the other rules do.
C23_RulesIndependent ==
    op = "get_recommendations" =>
        /\ Len(report) >= 1
        /\ Len(queries) >= 10 =>
               LET firing == {type \in RuleTypes : RuleAlone(type) # << >>}
               IN  /\ AdvisoryTypes \cap RuleTypes = firing
                   /\ NoOpportunities \in Advisories <=> firing = {}
                   /\ firing = {} => report = <<NoOpportunities>>
                   /\ Len(report) = IF firing = {} THEN 1 ELSE Cardinality(firing)

C23_Witness ==
    /\ op = "get_recommendations"
    /\ Len(queries) = 10
    /\ \E i \in 1 .. 10 : queries[i].backend = "mistral"
    /\ \E i \in 1 .. 10 : queries[i].backend = "cortex"
    /\ report = <<NoOpportunities>>

----------------------------------------------------------------------------
\* Properties of the recent window of the recommendation engine (SpecWindow)

\* the most recent min(100, n) samples of the store, by index
LastHundred == {i \in 1 .. Len(queries) : i > Len(queries) - 100}

\* the samples above 5000 ms among them, of one backend
Offending(b) ==
    {i \in LastHundred : queries[i].backend = b /\ queries[i].latency_ms > 5000}

LatencyOver(S) ==
    SeqSum([i \in 1 .. Len(queries) |->
               IF i \in S THEN queries[i].latency_ms ELSE 0])

\* C24: with at least 10 samples the performance advisory fires exactly when
\* the mean latency of the most recent min(100, n) samples exceeds 5000 ms;
\* it names, among the backends with a sample above 5000 ms in that window,
\* one with the highest average latency over those samples; and a window
\* whose mean exceeds 5000 ms holds a sample above 5000 ms, so the selection
\* does not fault.
C24_PerformanceOnRecentWindow ==
    (op = "get_recommendations" /\ Len(queries) >= 10) =>
        LET slowOnAverage ==
                LatencyOver(LastHundred) > 5000 * Cardinality(LastHundred)
        IN  /\ "performance" \in AdvisoryTypes <=> slowOnAverage
            /\ slowOnAverage => \E b \in Backend : Offending(b) # {}
            /\ \A i \in 1 .. Len(report) :
                   report[i].type = "performance" =>
                       LET named == report[i].message.slowest
                       IN  /\ Offending(named) # {}
                           /\ \A c \in Backend :
                                  Offending(c) # {} =>
                                      LatencyOver(Offending(named)) * Cardinality(Offending(c))
                                          >= LatencyOver(Offending(c)) * Cardinality(Offending(named))

C24_Witness ==
    /\ op = "get_recommendations"
    /\ Len(queries) = 101
    /\ LatencyOver(1 .. 101) > 5000 * 101
    /\ LatencyOver(LastHundred) <= 5000 * 100
    /\ "performance" \notin AdvisoryTypes

----------------------------------------------------------------------------
\* Properties of get_aggregated_metrics next to log_query calls (SpecRead)

\* the contiguous stretches of the metrics appended so far: the contents the
\* store can have had
Stretches ==
    {SubSeq(logged, i, j) : i \in 1 .. Len(logged) + 1, j \in 0 .. Len(logged)}

\* C25: a get_aggregated_metrics call that runs next to log_query calls, with
\* or without time bounds, returns the aggregate of one state of the store,
\* so total_queries = successful_queries + failed_queries with
\* failed_queries >= 0 and every grouped count sums to total_queries.
C25_AggregateOfOneSnapshot ==
    "total_queries" \in DOMAIN report =>
        /\ report.total_queries = report.successful_queries + report.failed_queries
        /\ report.failed_queries >= 0
        /\ DictSum(report.queries_by_backend) = report.total_queries
        /\ DictSum(report.queries_by_complexity) = report.total_queries
        /\ DictSum(report.queries_by_sensitivity) = report.total_queries
        /\ \E snapshot \in Stretches :
               report = AggregatedMetrics(
                            FilterByTime(snapshot, args.start_time, args.end_time))

====
